---------------------------- MODULE Spec2Model ----------------------------
(***************************************************************************)
(* Model of pictureclassifier/app/(tabs)/index.tsx.                        *)
(*                                                                         *)
(* The file holds two variants of the HomeScreen component:                *)
(*   variant "A" (lines 1-433):   the modal screen, whose pipeline is      *)
(*                                classifyImageViaApi;                     *)
(*   variant "B" (lines 435-1033): the card screen, whose pipeline is      *)
(*                                mockModelInference.                      *)
(*                                                                         *)
(* Conventions.                                                            *)
(*   - A JavaScript string that the code takes apart (an image URI) is a   *)
(*     sequence of one-character strings; a string the code only passes    *)
(*     on (a response text, an error message) is a TLA+ string.            *)
(*   - A JavaScript number is a decimal fixed-point integer counting       *)
(*     hundred-thousandths: 100000 is 1.0, 4250000 is 42.5, 42500 is       *)
(*     0.425.  The inputs have at most three decimals, so that the code's  *)
(*     "/ 100" is exact.                                                   *)
(*   - A JavaScript value read from the response is a record               *)
(*     [t, s, n, b]: t is its kind ("undefined", "string", "number",       *)
(*     "boolean", "null", "object"), s/n/b its payload.                    *)
(***************************************************************************)
EXTENDS Integers, Sequences, FiniteSets, TLC

VARIABLES
    variant,             \* which HomeScreen of the file is mounted: "A" or "B"
    imageUri,            \* useState imageUri (A) / selectedImageUri (B)
    prediction,          \* useState prediction
    isClassifying,       \* useState isClassifying
    cameraVisible,       \* useState cameraVisible (A) / isCameraVisible (B)
    resultModalVisible,  \* useState resultModalVisible (A only)
    inflight,            \* pipeline invocations awaiting their fetch
    invocations,         \* pipeline invocations started so far
    requestsSent,        \* calls of fetch made so far
    lastSettled,         \* the response and the outcome of the last settled invocation
    alert,               \* the last Alert.alert shown
    lastChosen,          \* the last image the camera or the picker handed over
    run                  \* one pipeline invocation followed on its own (SpecPipeline)

vars == << variant, imageUri, prediction, isClassifying, cameraVisible,
           resultModalVisible, inflight, invocations, requestsSent,
           lastSettled, alert, lastChosen, run >>

screenVars == << imageUri, prediction, isClassifying, cameraVisible,
                 resultModalVisible, inflight, invocations, requestsSent,
                 lastSettled, alert, lastChosen >>

----------------------------------------------------------------------------
(* Bounds *)

\* An image URI is built of at most MaxParts words joined by "/" or ".".
MaxParts == 3

\* The screen starts at most MaxInvocations pipeline invocations in a behaviour.
MaxInvocations == 3

----------------------------------------------------------------------------
(* JavaScript strings that the code splits *)

\* The lower-case form of one character (the alphabet has three capitals).
lowerChar(c) ==
    CASE c = "P" -> "p"
      [] c = "N" -> "n"
      [] c = "G" -> "g"
      [] OTHER -> c

\* String.prototype.toLowerCase
toLowerCase(s) == [i \in 1..Len(s) |-> lowerChar(s[i])]

\* The position of the last occurrence of sep in s, 0 when there is none.
RECURSIVE lastIndexOf(_, _, _)
lastIndexOf(s, sep, i) ==
    IF i = 0 THEN 0
    ELSE IF s[i] = sep THEN i
    ELSE lastIndexOf(s, sep, i - 1)

\* s.split(sep): the pieces of s between the occurrences of sep.  The array
\* always holds at least one piece (the whole of s when sep does not occur).
RECURSIVE split(_, _)
split(s, sep) ==
    LET k == lastIndexOf(s, sep, Len(s)) IN
    IF k = 0 THEN << s >>
    ELSE Append(split(SubSeq(s, 1, k - 1), sep), SubSeq(s, k + 1, Len(s)))

\* Array.prototype.pop's value: the last element, undefined for an empty array.
\* An array is read as [defined, v].
pop(arr) ==
    IF Len(arr) = 0 THEN [defined |-> FALSE, v |-> << >>]
    ELSE [defined |-> TRUE, v |-> arr[Len(arr)]]

PNG  == << "p", "n", "g" >>
HEIC == << "h", "e", "i", "c" >>
WEBP == << "w", "e", "b", "p" >>

Words == { << >>, << "a" >>, PNG, << "P", "N", "G" >>, HEIC, WEBP,
           << "j", "p", "g" >> }

Separators == { "/", "." }

\* The strings made of at most n words joined by separators.
RECURSIVE Joined(_)
Joined(n) ==
    IF n <= 1 THEN Words
    ELSE Joined(n - 1) \cup
         { u \o << sep >> \o w : u \in Joined(n - 1), sep \in Separators, w \in Words }

\* The URIs a picker or the camera hands over: non-empty strings.
Uris == Joined(MaxParts) \ { << >> }

----------------------------------------------------------------------------
(* The multipart request: lines 100-122 (A), 715-738 (B) *)

\* const mimeType = extension === 'png' ? ... : 'image/jpeg'
mimeTypeOf(extension) ==
    IF extension.defined /\ extension.v = PNG THEN "image/png"
    ELSE IF extension.defined /\ extension.v = HEIC THEN "image/heic"
    ELSE IF extension.defined /\ extension.v = WEBP THEN "image/webp"
    ELSE "image/jpeg"

\* uri.split('/').pop() ?? fallback
fileNameOf(uri, fallback) ==
    LET last == pop(split(uri, "/")) IN
    IF last.defined THEN last.v ELSE fallback

\* fileName.split('.').pop()?.toLowerCase()
extensionOf(fileName) ==
    LET last == pop(split(fileName, ".")) IN
    IF last.defined THEN [defined |-> TRUE, v |-> toLowerCase(last.v)]
    ELSE last

UploadJpg == << "u", "p", "l", "o", "a", "d", ".", "j", "p", "g" >>
ImageJpg  == << "i", "m", "a", "g", "e", ".", "j", "p", "g" >>

API_ENDPOINT == "http://10.5.32.231:5000/predict"

\* classifyImageViaApi up to its fetch: the request it sends.
classifyImageViaApi_fetch(uri) ==
    LET fileName  == fileNameOf(uri, UploadJpg)
        extension == extensionOf(fileName)
    IN [ url    |-> API_ENDPOINT,
         method |-> "POST",
         field  |-> "image",
         uri    |-> uri,
         name   |-> fileName,
         type   |-> mimeTypeOf(extension) ]

\* mockModelInference up to its fetch: the request it sends.
mockModelInference_fetch(imageUri_) ==
    LET fileName == fileNameOf(imageUri_, ImageJpg)
        ext      == extensionOf(fileName)
    IN [ url    |-> "http://10.5.32.231:5000/predict",
         method |-> "POST",
         field  |-> "file",
         uri    |-> imageUri_,
         name   |-> fileName,
         type   |-> mimeTypeOf(ext) ]

----------------------------------------------------------------------------
(* The values of a response body *)

Undefined == [t |-> "undefined", s |-> "", n |-> 0, b |-> FALSE]
JsNull    == [t |-> "null",      s |-> "", n |-> 0, b |-> FALSE]
JsObject  == [t |-> "object",    s |-> "", n |-> 0, b |-> FALSE]
JsString(x)  == [t |-> "string",  s |-> x,  n |-> 0, b |-> FALSE]
JsNumber(x)  == [t |-> "number",  s |-> "", n |-> x, b |-> FALSE]
JsBoolean(x) == [t |-> "boolean", s |-> "", n |-> 0, b |-> x]

\* typeof v: 'object' for null, as in JavaScript.
typeof(v) == IF v.t = "null" THEN "object" ELSE v.t

\* a ?? b: b when a is null or undefined.
nullish(a, b) == IF a.t \in {"undefined", "null"} THEN b ELSE a

\* What a server may put in a label field (absent: Undefined).
LabelValues == { Undefined, JsString("Dog"), JsString("Cat"), JsNumber(4200000),
                 JsBoolean(TRUE), JsNull, JsObject }

\* What a server may put in a confidence field: 0, 0.87, 42.5, "0.9", null.
ConfidenceValues == { Undefined, JsNumber(0), JsNumber(87000), JsNumber(4250000),
                      JsString("0.9"), JsNull }

NoFields == [ label |-> Undefined, predicted_class |-> Undefined,
              confidence |-> Undefined, confidence_percent |-> Undefined ]

\* The values JSON.parse may return: an object with any of the four fields, null,
\* or a primitive (a number), which has no fields.
JsonObjects == { [t |-> "object", fields |-> f] :
                   f \in [ label : LabelValues, predicted_class : LabelValues,
                           confidence : ConfidenceValues,
                           confidence_percent : ConfidenceValues ] }

JsonValues == JsonObjects \cup { [t |-> "null", fields |-> NoFields],
                                 [t |-> "number", fields |-> NoFields] }

\* A response body: its text, and what JSON.parse makes of the text.
TextBody(text) == [ text |-> text, json |-> FALSE,
                    data |-> [t |-> "undefined", fields |-> NoFields] ]
JsonBody(d)    == [ text |-> ToString(d), json |-> TRUE, data |-> d ]

ErrorTexts == { "", "model unavailable", "Internal Server Error" }

Statuses == { 200, 299, 404, 500 }

NetworkFailure == [ kind |-> "reject", status |-> 0, body |-> TextBody("") ]
Response(status, body) == [ kind |-> "response", status |-> status, body |-> body ]

\* Every way a fetch may settle.
NetOutcomes ==
    { NetworkFailure } \cup
    { Response(st, TextBody(x)) : st \in Statuses, x \in ErrorTexts } \cup
    { Response(st, JsonBody(d)) : st \in Statuses, d \in JsonValues }

\* Response.ok: the status is in the range 200-299.
ok(response) == response.status \in 200..299

----------------------------------------------------------------------------
(* The pipeline after its fetch: lines 119-140 (A), 735-761 (B) *)

Return(label, confidence) ==
    [ kind |-> "return", label |-> label, confidence |-> confidence,
      name |-> "", message |-> "" ]
Throw(name, message) ==
    [ kind |-> "throw", label |-> Undefined, confidence |-> 0,
      name |-> name, message |-> message ]

\* orElse with the operands' roles lost: the fallback whatever the text.
orElse_alwaysFallback(message, fallback) == fallback

\* message || fallback: the fallback when the text is empty.
orElse(message, fallback) == IF message = "" THEN fallback ELSE message

\* percentOf with the two fields tried in the other order.
percentOf_confidenceFirst(data) ==
    IF typeof(data.fields.confidence) = "number"
    THEN data.fields.confidence.n * 100
    ELSE IF typeof(data.fields.confidence_percent) = "number"
    THEN data.fields.confidence_percent.n
    ELSE 0

\* typeof data.confidence_percent === 'number' ? data.confidence_percent
\*   : typeof data.confidence === 'number' ? data.confidence * 100 : 0
percentOf(data) ==
    IF typeof(data.fields.confidence_percent) = "number"
    THEN data.fields.confidence_percent.n
    ELSE IF typeof(data.fields.confidence) = "number"
    THEN data.fields.confidence.n * 100
    ELSE 0

\* typeof data.label === 'string' ? data.label : 'Unknown'
labelOfA(data) ==
    IF typeof(data.fields.label) = "string"
    THEN data.fields.label
    ELSE JsString("Unknown")

\* data.predicted_class ?? data.label ?? 'Unknown'
labelOfB(data) ==
    nullish(nullish(data.fields.predicted_class, data.fields.label),
            JsString("Unknown"))

\* classifyImageViaApi_settle without the test of response.ok.
classifyImageViaApi_settle_ignoringOk(net) ==
    IF net.kind = "reject"
    THEN Throw("TypeError", "Network request failed")
    ELSE IF ~net.body.json
    THEN Throw("SyntaxError", "JSON Parse error")
    ELSE IF net.body.data.t = "null"
    THEN Throw("TypeError", "Cannot read property of null")
    ELSE Return(labelOfA(net.body.data), percentOf(net.body.data) \div 100)

\* classifyImageViaApi from the settling of its fetch: what it returns or throws.
classifyImageViaApi_settle(net) ==
    IF net.kind = "reject"
    THEN Throw("TypeError", "Network request failed")
    ELSE IF ~ok(net)
    THEN Throw("Error", orElse(net.body.text, "Unable to classify image."))
    ELSE IF ~net.body.json
    THEN Throw("SyntaxError", "JSON Parse error")
    ELSE IF net.body.data.t = "null"
    THEN Throw("TypeError", "Cannot read property of null")
    ELSE Return(labelOfA(net.body.data), percentOf(net.body.data) \div 100)

\* mockModelInference from the settling of its fetch: what it returns or throws
\* (its catch logs the error and throws it again).
mockModelInference_settle(net) ==
    IF net.kind = "reject"
    THEN Throw("TypeError", "Network request failed")
    ELSE IF ~ok(net)
    THEN Throw("Error", orElse(net.body.text, "Failed to classify image."))
    ELSE IF ~net.body.json
    THEN Throw("SyntaxError", "JSON Parse error")
    ELSE IF net.body.data.t = "null"
    THEN Throw("TypeError", "Cannot read property of null")
    ELSE Return(labelOfB(net.body.data), percentOf(net.body.data))

----------------------------------------------------------------------------
(* One pipeline invocation on its own *)

NoRequest == [ url |-> "", method |-> "", field |-> "", uri |-> << >>,
               name |-> << >>, type |-> "" ]
NoNet     == [ kind |-> "none", status |-> 0, body |-> TextBody("") ]
NoOutcome == [ kind |-> "none", label |-> Undefined, confidence |-> 0,
               name |-> "", message |-> "" ]

Idle == [ pc |-> "idle", uri |-> << >>, request |-> NoRequest,
          net |-> NoNet, outcome |-> NoOutcome ]

\* The pipeline of the mounted variant.
pipelineFetch(uri) ==
    IF variant = "A" THEN classifyImageViaApi_fetch(uri)
    ELSE mockModelInference_fetch(uri)

pipelineSettle(net) ==
    IF variant = "A" THEN classifyImageViaApi_settle(net)
    ELSE mockModelInference_settle(net)

InitScreen ==
    /\ imageUri = [some |-> FALSE, v |-> << >>]
    /\ prediction = [some |-> FALSE, label |-> Undefined, confidence |-> 0]
    /\ isClassifying = FALSE
    /\ cameraVisible = FALSE
    /\ resultModalVisible = FALSE
    /\ inflight = {}
    /\ invocations = 0
    /\ requestsSent = 0
    /\ lastSettled = [net |-> NoNet, outcome |-> NoOutcome, request |-> NoRequest]
    /\ lastChosen = [tick |-> FALSE, uri |-> << >>]
    /\ alert = [title |-> "", message |-> ""]

\* The URIs the screen's pickers hand over: a/a.png and a/jpg.
ScreenUris == { << "a", "/", "a", "." >> \o PNG, << "a", "/", "j", "p", "g" >> }

\* The pipeline is called with one of the screen's URIs.
InitPipeline ==
    /\ variant \in {"A", "B"}
    /\ InitScreen
    /\ \E uri \in ScreenUris :
           run = [Idle EXCEPT !.pc = "called", !.uri = uri]

\* The pipeline is called with any URI.
InitRequest ==
    /\ variant \in {"A", "B"}
    /\ InitScreen
    /\ \E uri \in Uris :
           run = [Idle EXCEPT !.pc = "called", !.uri = uri]

\* Lines 100-122 / 715-738: the form data is built and the request is sent.
PipelineFetch ==
    /\ run.pc = "called"
    /\ run' = [run EXCEPT !.pc = "fetching", !.request = pipelineFetch(run.uri)]
    /\ UNCHANGED << variant, screenVars >>

\* Lines 124-140 / 740-761: the fetch settles and the pipeline returns or throws.
PipelineSettle ==
    /\ run.pc = "fetching"
    /\ \E net \in NetOutcomes :
           run' = [run EXCEPT !.pc = "settled", !.net = net,
                              !.outcome = pipelineSettle(net)]
    /\ UNCHANGED << variant, screenVars >>

NextPipeline == PipelineFetch \/ PipelineSettle

\* The pipeline from its call to its return or throw, over every response.
SpecPipeline == InitPipeline /\ [][NextPipeline]_vars

\* The pipeline from its call to its request, over every URI.
SpecRequest == InitRequest /\ [][PipelineFetch]_vars

----------------------------------------------------------------------------
(* Claims about the pipeline (SpecPipeline, SpecRequest) *)

\* The invocation has settled on an HTTP response.
SettledOnResponse == run.pc = "settled" /\ run.net.kind = "response"

\* The invocation has settled on a 2xx response whose body is JSON.
SettledOnJson == SettledOnResponse /\ ok(run.net) /\ run.net.body.json

\* The 0-100 percentage a returned Prediction carries, before the variant's last
\* scaling: A divides it by 100, B leaves it.
percentReturned == IF variant = "A" THEN run.outcome.confidence * 100
                   ELSE run.outcome.confidence

\* C3: a non-2xx response with a non-empty body text makes the pipeline throw an
\* error whose message is exactly that text; no Prediction is returned.
C3_ErrorMessageIsBodyText ==
    (SettledOnResponse /\ ~ok(run.net) /\ run.net.body.text # "")
        => /\ run.outcome.kind = "throw"
           /\ run.outcome.message = run.net.body.text

C3_Witness ==
    /\ SettledOnResponse
    /\ run.net.status = 500
    /\ run.net.body.text = "model unavailable"
    /\ run.outcome.kind = "throw"

\* C4: a non-2xx response with an empty body makes the pipeline throw the
\* fallback message "Unable to classify image.", in both variants.
C4_EmptyBodyFallback ==
    (SettledOnResponse /\ ~ok(run.net) /\ run.net.body.text = "")
        => /\ run.outcome.kind = "throw"
           /\ run.outcome.message = "Unable to classify image."

\* t is the end of s.
EndsWith(s, t) ==
    /\ Len(t) <= Len(s)
    /\ SubSeq(s, Len(s) - Len(t) + 1, Len(s)) = t

\* The text of a URI after its last "/".
LastSegment(uri) ==
    LET slashes == { i \in 1..Len(uri) : uri[i] = "/" }
        k == IF slashes = {} THEN 0
             ELSE CHOOSE i \in slashes : \A j \in slashes : j <= i
    IN SubSeq(uri, k + 1, Len(uri))

\* The file name ends in "." and ext, in either case of letters.
HasExtension(uri, ext) == EndsWith(toLowerCase(LastSegment(uri)), << "." >> \o ext)

\* C5: the MIME type of the request is image/png, image/heic or image/webp exactly
\* when the file name ends in .png, .heic or .webp, and image/jpeg otherwise, also
\* for a file name without "." that reads png, heic or webp.
C5_MimeTypeByExtension ==
    run.pc = "fetching" =>
        /\ run.request.type = "image/png"  <=> HasExtension(run.uri, PNG)
        /\ run.request.type = "image/heic" <=> HasExtension(run.uri, HEIC)
        /\ run.request.type = "image/webp" <=> HasExtension(run.uri, WEBP)
        /\ run.request.type \in {"image/png", "image/heic", "image/webp", "image/jpeg"}

C7_PredictedClassAndPercent ==
    ( /\ variant = "A"
      /\ SettledOnJson
      /\ run.net.body.data.t = "object"
      /\ run.net.body.data.fields.predicted_class.t = "string"
      /\ run.net.body.data.fields.confidence_percent.t = "number"
      /\ run.net.body.data.fields.label = Undefined )
        => /\ run.outcome.kind = "return"
           /\ run.outcome.label = run.net.body.data.fields.predicted_class
           /\ run.outcome.confidence * 100 = run.net.body.data.fields.confidence_percent.n

\* C8: the label of a returned Prediction is a string: "Unknown" when the server
\* sent no string in the label field (A: label; B: predicted_class, else label),
\* the server's value when it is a string.
C8_LabelIsString ==
    (SettledOnJson /\ run.outcome.kind = "return") =>
        LET f == run.net.body.data.fields
            sent == IF variant = "A" THEN f.label
                    ELSE IF f.predicted_class.t \in {"undefined", "null"} THEN f.label
                    ELSE f.predicted_class
        IN /\ run.outcome.label.t = "string"
           /\ sent.t = "string" => run.outcome.label = sent
           /\ sent.t # "string" => run.outcome.label = JsString("Unknown")

\* C9: a 2xx JSON body with none of label, predicted_class, confidence and
\* confidence_percent makes the pipeline return {label: "Unknown", confidence: 0}.
C9_DefaultsWhenFieldsMissing ==
    (SettledOnJson /\ run.net.body.data.fields = NoFields)
        => /\ run.outcome.kind = "return"
           /\ run.outcome.label = JsString("Unknown")
           /\ run.outcome.confidence = 0

----------------------------------------------------------------------------
(* The screen: state and inputs *)

NullUri         == [some |-> FALSE, v |-> << >>]
SomeUri(u)      == [some |-> TRUE, v |-> u]
NullPrediction  == [some |-> FALSE, label |-> Undefined, confidence |-> 0]
SomePrediction(result) ==
    [some |-> TRUE, label |-> result.label, confidence |-> result.confidence]

NoAlert == [title |-> "", message |-> ""]
Alert(title, message) == [title |-> title, message |-> message]

\* !!x of a string | null: false for null and for the empty string.
truthy(x) == x.some /\ x.v # << >>

\* const hasImage = Boolean(imageUri)
hasImage == truthy(imageUri)

EmptyObject == [t |-> "object", fields |-> NoFields]

\* The responses the screen's requests meet: a network failure, server errors
\* with and without a text, a server error with a JSON body, and 2xx bodies that
\* are not JSON, null, {}, and objects in the servers' two conventions.
ScreenOutcomes ==
    { NetworkFailure,
      Response(500, TextBody("")),
      Response(500, TextBody("model unavailable")),
      Response(404, JsonBody([EmptyObject EXCEPT !.fields.label = JsString("Dog"),
                                                 !.fields.confidence = JsNumber(87000)])),
      Response(200, TextBody("")),
      Response(200, JsonBody([t |-> "null", fields |-> NoFields])),
      Response(200, JsonBody(EmptyObject)),
      Response(200, JsonBody([EmptyObject EXCEPT !.fields.label = JsString("Dog"),
                                                 !.fields.confidence = JsNumber(87000)])),
      Response(200, JsonBody([EmptyObject EXCEPT !.fields.predicted_class = JsString("Cat"),
                                                 !.fields.confidence_percent = JsNumber(4250000)])) }

\* What takePictureAsync settles on: a photo, undefined, or a rejection.
CaptureResults ==
    { [kind |-> "photo", uri |-> u] : u \in ScreenUris } \cup
    { [kind |-> "undefined", uri |-> << >>], [kind |-> "reject", uri |-> << >>] }

\* What launchImageLibraryAsync settles on: a cancellation, a selection without
\* assets, an image, a video, or a rejection.
PickResults ==
    { [kind |-> "canceled", type |-> "", uri |-> << >>],
      [kind |-> "empty", type |-> "", uri |-> << >>],
      [kind |-> "reject", type |-> "", uri |-> << >>] } \cup
    { [kind |-> "asset", type |-> ty, uri |-> u] :
        ty \in {"image", "video"}, u \in ScreenUris }

\* classifyDisabled without the classifying flag.
classifyDisabled_withoutFlag == ~hasImage

\* The camera or the picker hands over the image at uri: a new image is chosen.
\* The tick tells a choice of the same URI from no choice.
choose(uri) == lastChosen' = [tick |-> ~lastChosen.tick, uri |-> uri]

\* disabled={!hasImage || isClassifying} of the Classify button.
classifyDisabled == ~hasImage \/ isClassifying

\* callPipeline sending its request twice.
callPipeline_fetchTwice(uri) ==
    /\ invocations' = invocations + 1
    /\ requestsSent' = requestsSent + 2
    /\ inflight' = inflight \cup
                     { [id |-> invocations + 1, request |-> pipelineFetch(uri)] }

\* The pipeline is called: the form data is built and the one request is sent
\* (lines 99-122, 713-738); the caller awaits.
callPipeline(uri) ==
    /\ invocations' = invocations + 1
    /\ requestsSent' = requestsSent + 1
    /\ inflight' = inflight \cup
                     { [id |-> invocations + 1, request |-> pipelineFetch(uri)] }

----------------------------------------------------------------------------
(* Variant A: lines 26-260 *)

\* The screen under the two modals takes touches only when neither is shown.
mainScreenTouchable_A == ~cameraVisible /\ ~(resultModalVisible /\ prediction.some)

\* "Take Picture": ensureCameraPermission, then the camera modal opens.
handleOpenCamera_A ==
    /\ variant = "A"
    /\ mainScreenTouchable_A
    /\ \E granted \in BOOLEAN :
           IF ~granted
           THEN /\ alert' = Alert("Camera permission needed",
                                  "Please grant camera access to capture images.")
                /\ UNCHANGED cameraVisible
           ELSE /\ cameraVisible' = TRUE
                /\ UNCHANGED alert
    /\ UNCHANGED << variant, imageUri, prediction, isClassifying, resultModalVisible,
                    inflight, invocations, requestsSent, lastSettled, lastChosen, run >>

\* "Cancel" of the camera modal.
cancelCamera_A ==
    /\ variant = "A"
    /\ cameraVisible
    /\ cameraVisible' = FALSE
    /\ UNCHANGED << variant, imageUri, prediction, isClassifying, resultModalVisible,
                    inflight, invocations, requestsSent, lastSettled, alert, lastChosen, run >>

\* "Capture" of the camera modal (cameraRef.current is set while it is shown).
handleCapturePhoto_A ==
    /\ variant = "A"
    /\ cameraVisible
    /\ \E photo \in CaptureResults :
           \* photo.uri of undefined throws into the catch, as a rejection does
           IF photo.kind = "photo"
           THEN /\ choose(photo.uri)
                /\ imageUri' = SomeUri(photo.uri)
                /\ prediction' = NullPrediction
                /\ resultModalVisible' = FALSE
                /\ cameraVisible' = FALSE
                /\ UNCHANGED alert
           ELSE /\ alert' = Alert("Capture failed", "Unable to take a picture right now.")
                /\ UNCHANGED << imageUri, prediction, resultModalVisible, cameraVisible,
                                lastChosen >>
    /\ UNCHANGED << variant, isClassifying, inflight, invocations, requestsSent,
                    lastSettled, run >>

\* "Select from Gallery".
handlePickImage_A ==
    /\ variant = "A"
    /\ mainScreenTouchable_A
    /\ \E granted \in BOOLEAN, result \in PickResults :
           \* a rejection of the picker is not caught: the handler ends there
           IF ~granted
           THEN /\ alert' = Alert("Gallery permission needed",
                                  "Please allow access to your library to select images.")
                /\ UNCHANGED << imageUri, prediction, resultModalVisible, lastChosen >>
           ELSE IF result.kind = "asset"
           THEN /\ choose(result.uri)
                /\ imageUri' = SomeUri(result.uri)
                /\ prediction' = NullPrediction
                /\ resultModalVisible' = FALSE
                /\ UNCHANGED alert
           ELSE UNCHANGED << imageUri, prediction, resultModalVisible, alert, lastChosen >>
    /\ UNCHANGED << variant, isClassifying, cameraVisible, inflight, invocations,
                    requestsSent, lastSettled, run >>

\* "Classify", up to the await of the pipeline.
handleClassify_A ==
    /\ variant = "A"
    /\ mainScreenTouchable_A
    /\ ~classifyDisabled
    /\ invocations < MaxInvocations
    /\ IF ~truthy(imageUri)
       THEN /\ alert' = Alert("No image", "Pick or capture an image before classifying.")
            /\ UNCHANGED << isClassifying, inflight, invocations, requestsSent >>
       ELSE /\ isClassifying' = TRUE
            /\ callPipeline(imageUri.v)
            /\ UNCHANGED alert
    /\ UNCHANGED << variant, imageUri, prediction, cameraVisible, resultModalVisible,
                    lastSettled, lastChosen, run >>

\* "Classify", from the settling of the pipeline: try, catch and finally.
handleClassify_A_settle ==
    /\ variant = "A"
    /\ \E inv \in inflight, net \in ScreenOutcomes :
           LET result == classifyImageViaApi_settle(net) IN
           /\ inflight' = inflight \ { inv }
           /\ lastSettled' = [net |-> net, outcome |-> result, request |-> inv.request]
           /\ IF result.kind = "return"
              THEN /\ prediction' = SomePrediction(result)
                   /\ resultModalVisible' = TRUE
                   /\ UNCHANGED alert
              ELSE /\ alert' = Alert("Classification failed", result.message)
                   /\ UNCHANGED << prediction, resultModalVisible >>
           /\ isClassifying' = FALSE
    /\ UNCHANGED << variant, imageUri, cameraVisible, invocations, requestsSent, lastChosen, run >>

\* "OK" and the back button of the result modal.
closeResultModal_A ==
    /\ variant = "A"
    /\ resultModalVisible /\ prediction.some
    /\ resultModalVisible' = FALSE
    /\ UNCHANGED << variant, imageUri, prediction, isClassifying, cameraVisible,
                    inflight, invocations, requestsSent, lastSettled, alert, lastChosen, run >>

----------------------------------------------------------------------------
(* Variant B: lines 465-711 *)

\* updateImageState without its setPrediction(null).
updateImageState_keepingPrediction(uri) ==
    /\ imageUri' = uri
    /\ UNCHANGED prediction

\* updateImageState(uri, meta)
updateImageState(uri) ==
    /\ imageUri' = uri
    /\ prediction' = NullPrediction

\* "Use Camera": ensureCameraAccess, then the camera view is shown.
handleOpenCamera_B ==
    /\ variant = "B"
    /\ \E granted \in BOOLEAN :
           IF ~granted
           THEN /\ alert' = Alert("Permission needed",
                                  "Camera access is required to take a photo.")
                /\ UNCHANGED cameraVisible
           ELSE /\ cameraVisible' = TRUE
                /\ UNCHANGED alert
    /\ UNCHANGED << variant, imageUri, prediction, isClassifying, resultModalVisible,
                    inflight, invocations, requestsSent, lastSettled, lastChosen, run >>

\* "Close" of the camera view.
closeCamera_B ==
    /\ variant = "B"
    /\ cameraVisible
    /\ cameraVisible' = FALSE
    /\ UNCHANGED << variant, imageUri, prediction, isClassifying, resultModalVisible,
                    inflight, invocations, requestsSent, lastSettled, alert, lastChosen, run >>

\* "Pick from Gallery": the camera view is hidden, ensureMediaAccess, the picker.
\* access: "granted", "denied" (asked and refused: an alert) or "none" (the
\* request returned nothing).
handlePickImage_B ==
    /\ variant = "B"
    /\ cameraVisible' = FALSE
    /\ \E access \in {"granted", "denied", "none"}, result \in PickResults :
           IF access = "denied"
           THEN /\ alert' = Alert("Permission needed",
                                  "Gallery access is required to pick an image. You can enable access from the device settings.")
                /\ UNCHANGED << imageUri, prediction, lastChosen >>
           ELSE IF access = "none" \/ result.kind \in {"canceled", "empty"}
           THEN UNCHANGED << imageUri, prediction, alert, lastChosen >>
           ELSE IF result.kind = "reject"
           THEN /\ alert' = Alert("Something went wrong",
                                  "Unable to open the photo library right now. Please try again.")
                /\ UNCHANGED << imageUri, prediction, lastChosen >>
           ELSE IF result.type # "image"
           THEN /\ alert' = Alert("Only images supported",
                                  "Please pick a photo to continue classification.")
                /\ UNCHANGED << imageUri, prediction, lastChosen >>
           ELSE /\ choose(result.uri)
                /\ updateImageState(SomeUri(result.uri))
                /\ UNCHANGED alert
    /\ UNCHANGED << variant, isClassifying, resultModalVisible, inflight, invocations,
                    requestsSent, lastSettled, run >>

\* The shutter of the camera view (cameraRef.current is set while it is shown).
handleTakePhoto_B ==
    /\ variant = "B"
    /\ cameraVisible
    /\ \E photo \in CaptureResults :
           IF photo.kind = "photo"
           THEN /\ choose(photo.uri)
                /\ updateImageState(SomeUri(photo.uri))
           ELSE IF photo.kind = "undefined"
           THEN /\ updateImageState(NullUri)
                /\ UNCHANGED lastChosen
           ELSE UNCHANGED << imageUri, prediction, lastChosen >>
    /\ cameraVisible' = FALSE
    /\ UNCHANGED << variant, isClassifying, resultModalVisible, inflight, invocations,
                    requestsSent, lastSettled, alert, run >>

\* "Classify", up to the await of the pipeline.
handleClassify_B ==
    /\ variant = "B"
    /\ ~classifyDisabled
    /\ invocations < MaxInvocations
    /\ IF ~truthy(imageUri)
       THEN UNCHANGED << isClassifying, prediction, inflight, invocations, requestsSent >>
       ELSE /\ isClassifying' = TRUE
            /\ prediction' = NullPrediction
            /\ callPipeline(imageUri.v)
    /\ UNCHANGED << variant, imageUri, cameraVisible, resultModalVisible, lastSettled,
                    alert, lastChosen, run >>

\* handleClassify_B_settle with the flag reset inside the try, not in a finally:
\* a throw of the pipeline leaves the flag set.
handleClassify_B_settle_noFinally ==
    /\ variant = "B"
    /\ \E inv \in inflight, net \in ScreenOutcomes :
           LET result == mockModelInference_settle(net) IN
           /\ inflight' = inflight \ { inv }
           /\ lastSettled' = [net |-> net, outcome |-> result, request |-> inv.request]
           /\ IF result.kind = "return"
              THEN /\ prediction' = SomePrediction(result)
                   /\ isClassifying' = FALSE
              ELSE UNCHANGED << prediction, isClassifying >>
    /\ UNCHANGED << variant, imageUri, cameraVisible, resultModalVisible, invocations,
                    requestsSent, alert, lastChosen, run >>

\* "Classify", from the settling of the pipeline: try and finally, no catch.
handleClassify_B_settle ==
    /\ variant = "B"
    /\ \E inv \in inflight, net \in ScreenOutcomes :
           LET result == mockModelInference_settle(net) IN
           /\ inflight' = inflight \ { inv }
           /\ lastSettled' = [net |-> net, outcome |-> result, request |-> inv.request]
           /\ IF result.kind = "return"
              THEN prediction' = SomePrediction(result)
              ELSE UNCHANGED prediction
           /\ isClassifying' = FALSE
    /\ UNCHANGED << variant, imageUri, cameraVisible, resultModalVisible, invocations,
                    requestsSent, alert, lastChosen, run >>

----------------------------------------------------------------------------
(* The screen's specification *)

Init ==
    /\ variant \in {"A", "B"}
    /\ InitScreen
    /\ run = Idle

Next ==
    \/ handleOpenCamera_A
    \/ cancelCamera_A
    \/ handleCapturePhoto_A
    \/ handlePickImage_A
    \/ handleClassify_A
    \/ handleClassify_A_settle
    \/ closeResultModal_A
    \/ handleOpenCamera_B
    \/ closeCamera_B
    \/ handlePickImage_B
    \/ handleTakePhoto_B
    \/ handleClassify_B
    \/ handleClassify_B_settle

Spec == Init /\ [][Next]_vars

\* The screen with a network on which every fetch settles: the continuation of an
\* awaiting handleClassify is eventually run.
FairSpec ==
    /\ Spec
    /\ WF_vars(handleClassify_A_settle)
    /\ WF_vars(handleClassify_B_settle)

----------------------------------------------------------------------------
(* Claims about the screen (Spec) *)

\* The last settled invocation met a 2xx response.
LastSettledOn2xx == lastSettled.net.kind = "response" /\ ok(lastSettled.net)

\* C1: the prediction is set only in a step in which an invocation settles on a
\* 2xx response, and to the Prediction returned for that response; an invocation
\* that settles on a non-2xx response or on a network failure throws and leaves
\* the prediction as it was.
C1_PredictionOnlyFrom2xx ==
    [][ /\ (prediction' # prediction /\ prediction'.some) =>
              /\ inflight' # inflight /\ inflight' \subseteq inflight
              /\ LastSettledOn2xx'
              /\ lastSettled'.outcome.kind = "return"
              /\ prediction' = SomePrediction(lastSettled'.outcome)
        /\ (inflight' # inflight /\ inflight' \subseteq inflight /\ ~LastSettledOn2xx') =>
              /\ lastSettled'.outcome.kind = "throw"
              /\ prediction' = prediction
      ]_vars

\* A prediction is shown, and a later submission has failed on a server error.
C1_Witness ==
    /\ prediction.some
    /\ lastSettled.net.kind = "response"
    /\ lastSettled.net.status = 500
    /\ lastSettled.outcome.kind = "throw"
    /\ inflight = {}

\* C2: at most one request is outstanding, and while one is the classifying flag
\* is set: a press of Classify between the start of a request and its settling
\* starts no second request.
C2_AtMostOneInFlight ==
    /\ Cardinality(inflight) <= 1
    /\ inflight # {} => isClassifying

\* The second submission of a behaviour is outstanding.
C2_Witness ==
    /\ invocations = 2
    /\ Cardinality(inflight) = 1
    /\ isClassifying

\* C10: as many requests have been sent as pipeline invocations were started,
\* whatever the invocations settled on.
C10_OneRequestPerInvocation ==
    /\ requestsSent = invocations
    /\ Cardinality(inflight) <= invocations

\* Two invocations have settled, the last on a network failure, and exactly two
\* requests were sent.
C10_Witness ==
    /\ invocations = 2
    /\ requestsSent = 2
    /\ inflight = {}
    /\ lastSettled.net.kind = "reject"
    /\ lastSettled.outcome.kind = "throw"

\* A step in which an invocation of the pipeline settles.
SettleStep == inflight' # inflight /\ inflight' \subseteq inflight

\* C11: every submission whose pipeline throws shows the user an alert carrying
\* the error's message, in both variants.
C11_FailureAlerted ==
    [][ (SettleStep /\ lastSettled'.outcome.kind = "throw") =>
            /\ alert'.title # ""
            /\ alert'.message = lastSettled'.outcome.message
      ]_vars

\* C12: the classifying flag is set only while a request is outstanding, the step
\* in which the request settles resets it whatever the outcome, and so a set flag
\* is eventually reset (on a network on which every fetch settles).
C12_FlagReset ==
    /\ [](isClassifying => inflight # {})
    /\ [][SettleStep => ~isClassifying']_vars
    /\ (isClassifying ~> ~isClassifying)

\* The one submission of variant B met a body that is not JSON, and the flag is
\* reset.
C12_Witness ==
    /\ variant = "B"
    /\ invocations = 1
    /\ inflight = {}
    /\ lastSettled.outcome.name = "SyntaxError"
    /\ ~isClassifying

\* C13: a step in which the camera or the picker hands over a new image leaves
\* that image selected and no prediction, and in variant A the result modal hidden.
C13_NewImageDiscardsPrediction ==
    [][ lastChosen' # lastChosen =>
            /\ imageUri' = SomeUri(lastChosen'.uri)
            /\ prediction' = NullPrediction
            /\ variant = "A" => ~resultModalVisible'
      ]_vars

\* A Prediction was returned and shown, and an image chosen since has discarded it.
C13_Witness ==
    /\ lastSettled.outcome.kind = "return"
    /\ inflight = {}
    /\ ~isClassifying
    /\ lastChosen.uri # << >>
    /\ imageUri = SomeUri(lastChosen.uri)
    /\ ~prediction.some

\* C14: a prediction on show was computed from the image that is selected: it is
\* the result of a request sent for the selected URI.
C14_PredictionOfSelectedImage ==
    prediction.some =>
        /\ imageUri.some
        /\ lastSettled.request.uri = imageUri.v

\* C15: while the classifying flag is set an image is selected.
C15_ClassifyingHasImage == isClassifying => hasImage

=============================================================================
